---- MODULE Spec2Model ----
(***************************************************************************)
(* A model of jsonclasses' JSONObject (src/jsonclasses/json_object.py):    *)
(* construction, the attribute-assignment hook with its relationship      *)
(* synchronization, update, set, validate, is_valid and tojson, over a     *)
(* small heap of Model Instances.                                          *)
(***************************************************************************)
EXTENDS Integers, Sequences, FiniteSets, TLC

VARIABLES
    heap,   \* object id -> (attribute name -> value): every instance's __dict__
    call,   \* the last top-level call: [op, self, kwargs]
    pre,    \* the heap as it was when that call started
    res,    \* how that call ended: [exc, ret, keys, depth, visits, maps, lm, stale]
    nops    \* the number of top-level calls made so far

vars == <<heap, call, pre, res, nops>>

----------------------------------------------------------------------------
(* Bounds of the model.                                                    *)

\* most top-level calls in one run of Spec
MaxOps == 3
\* most update calls in one run of SpecUpdate
MaxUpdates == 2
\* most calls in one run of SpecHook
MaxAssigns == 2
\* longest list a caller passes as a value
MaxListLen == 1
\* the interpreter's recursion limit, scaled down to the size of the heap
MaxDepth == 6

----------------------------------------------------------------------------
(* Python values.                                                          *)

None == [k |-> "none"]
PyInt(n) == [k |-> "int", n |-> n]
Ref(o) == [k |-> "obj", id |-> o]
\* a plain list, as a caller writes it
RawList(items) == [k |-> "list", items |-> items, owner |-> "", keypath |-> ""]
\* OwnedList(items) with .owner and .keypath set
OwnedList(items, owner, keypath) ==
    [k |-> "list", items |-> items, owner |-> owner, keypath |-> keypath]
\* a plain dict, as a caller writes it: its <<key, value>> pairs in order
RawDict(items) == [k |-> "dict", items |-> items, owner |-> "", keypath |-> ""]
\* OwnedDict(items) with .owner and .keypath set
OwnedDict(items, owner, keypath) ==
    [k |-> "dict", items |-> items, owner |-> owner, keypath |-> keypath]
PyStr(t) == [k |-> "str", t |-> t]
True == [k |-> "bool", b |-> TRUE]
False == [k |-> "bool", b |-> FALSE]

\* keyword arguments and dict items are sequences of <<key, value>> pairs
KeysOf(kwargs) == {kwargs[i][1] : i \in 1..Len(kwargs)}
HasKey(kwargs, f) == \E i \in 1..Len(kwargs) : kwargs[i][1] = f
ValueOf(kwargs, f) == kwargs[CHOOSE i \in 1..Len(kwargs) : kwargs[i][1] = f][2]

----------------------------------------------------------------------------
(* The declared classes: two classes A and B paired by a one-to-one        *)
(* relationship (A.one <-> B.back) and a one-to-many relationship          *)
(* (A.many <-> B.items), and a class C of scalar fields with accessor      *)
(* marks.                                                                  *)

AObjs == {"a1", "a2"}
BObjs == {"b1", "b2"}
CObjs == {"c1"}
Objs == AObjs \cup BObjs \cup CObjs

ClassOf(o) == IF o \in AObjs THEN "A" ELSE IF o \in BObjs THEN "B" ELSE "C"

\* dataclass fields, in declaration order
FieldsOf(cls) ==
    CASE cls = "A" -> <<"tag", "one", "many">>
      [] cls = "B" -> <<"back", "items">>
      [] cls = "C" -> <<"pub", "ro", "once", "internal">>

FieldNames(cls) == {FieldsOf(cls)[i] : i \in 1..Len(FieldsOf(cls))}

FieldType(cls, f) ==
    CASE f \in {"one", "many", "back"} -> "INSTANCE"
      [] f = "items" -> "LIST"
      [] OTHER -> "SCALAR"

FieldStorage(cls, f) ==
    CASE f \in {"one", "many"} -> "LOCAL_KEY"
      [] f \in {"back", "items"} -> "FOREIGN_KEY"
      [] OTHER -> "PLAIN"

Accessor(cls, f) ==
    CASE f = "ro" -> "ReadOnly"
      [] f = "once" -> "WriteOnce"
      [] f = "internal" -> "Internal"
      [] OTHER -> "Public"

NoField == ""

\* other_field(self, value, sfield): the paired field on value's class
other_field(self, value, name) ==
    CASE ClassOf(self) = "A" /\ ClassOf(value) = "B" /\ name = "one" -> "back"
      [] ClassOf(self) = "A" /\ ClassOf(value) = "B" /\ name = "many" -> "items"
      [] ClassOf(self) = "B" /\ ClassOf(value) = "A" /\ name = "back" -> "one"
      [] ClassOf(self) = "B" /\ ClassOf(value) = "A" /\ name = "items" -> "many"
      [] OTHER -> NoField

----------------------------------------------------------------------------
(* Equality of values as Python computes it.  JSONObject is a dataclass,   *)
(* so x == y on two instances of one class compares the tuples of their    *)
(* fields; a tuple or list comparison takes two items as equal when they   *)
(* are the same object and asks == otherwise (the __eq__ that dataclass    *)
(* generates up to Python 3.12).  The answers are "T", "F", and "E" when   *)
(* the comparison recurses without end (RecursionError).                   *)

RECURSIVE ValEq(_, _, _, _)
RECURSIVE ItemsEq(_, _, _, _, _)

\* the same object: None, a cached small int, an interned string, or one
\* instance
Is(v, w) ==
    \/ v.k = "none" /\ w.k = "none"
    \/ v.k = "int" /\ w.k = "int" /\ v.n = w.n
    \/ v.k = "bool" /\ w.k = "bool" /\ v.b = w.b
    \/ v.k = "str" /\ w.k = "str" /\ v.t = w.t
    \/ v.k = "obj" /\ w.k = "obj" /\ v.id = w.id

\* the number an int or a bool stands for (True == 1)
Num(v) == IF v.k = "bool" THEN (IF v.b THEN 1 ELSE 0) ELSE v.n

\* the items of vs and ws compared in order from position i
ItemsEq(h, vs, ws, i, stk) ==
    IF i > Len(vs) THEN "T"
    ELSE LET r == IF Is(vs[i], ws[i]) THEN "T" ELSE ValEq(h, vs[i], ws[i], stk)
         IN  IF r = "T" THEN ItemsEq(h, vs, ws, i + 1, stk) ELSE r

FieldTuple(h, o) == [i \in 1..Len(FieldsOf(ClassOf(o))) |-> h[o][FieldsOf(ClassOf(o))[i]]]

\* v == w, with stk the comparisons of instances still running
ValEq(h, v, w, stk) ==
    IF v.k = "obj" /\ w.k = "obj" THEN
        IF v.id = w.id THEN "T"
        ELSE IF ClassOf(v.id) # ClassOf(w.id) THEN "F"
        ELSE IF <<v.id, w.id>> \in stk THEN "E"
        ELSE ItemsEq(h, FieldTuple(h, v.id), FieldTuple(h, w.id), 1,
                     stk \cup {<<v.id, w.id>>})
    ELSE IF v.k = "list" /\ w.k = "list" THEN
        IF Len(v.items) # Len(w.items) THEN "F"
        ELSE ItemsEq(h, v.items, w.items, 1, stk)
    ELSE IF v.k = "dict" /\ w.k = "dict" THEN
        IF KeysOf(v.items) # KeysOf(w.items) THEN "F"
        ELSE ItemsEq(h, [i \in 1..Len(v.items) |-> v.items[i][2]],
                     [i \in 1..Len(v.items) |-> ValueOf(w.items, v.items[i][1])], 1, stk)
    ELSE IF v.k \in {"int", "bool"} /\ w.k \in {"int", "bool"} THEN
        IF Num(v) = Num(w) THEN "T" ELSE "F"
    ELSE IF Is(v, w) THEN "T" ELSE "F"

PyEq(h, v, w) == ValEq(h, v, w, {})

\* v != w
PyNe(h, v, w) ==
    LET e == PyEq(h, v, w) IN IF e = "E" THEN "E" ELSE IF e = "T" THEN "F" ELSE "T"

RECURSIVE ContainsFrom(_, _, _, _)
ContainsFrom(h, items, v, i) ==
    IF i > Len(items) THEN "F"
    ELSE LET r == IF Is(items[i], v) THEN "T" ELSE PyEq(h, items[i], v)
         IN  IF r = "F" THEN ContainsFrom(h, items, v, i + 1) ELSE r

\* v in items
Contains(h, items, v) == ContainsFrom(h, items, v, 1)

----------------------------------------------------------------------------
(* JSONObject.__setattr__                                                  *)

\* object.__setattr__(o, name, v): the attribute is created if o has none
\* of that name
Store(h, o, name, v) ==
    [h EXCEPT ![o] = [f \in DOMAIN @ \cup {name} |-> IF f = name THEN v ELSE @[f]]]

Returned(h, d) == [heap |-> h, exc |-> "none", depth |-> d]
Raised(h, e, d) == [heap |-> h, exc |-> e, depth |-> d]

RECURSIVE SetAttr(_, _, _, _, _)

\* a variant that takes the link away from the instance the other side
\* referred to before
SyncInstanceUnlinksOld(h, self, other, oname, d) ==
    LET ne == PyNe(h, h[other][oname], Ref(self))
        old == h[other][oname]
        h0 == IF old.k = "obj" /\ old.id # self /\ other_field(other, old.id, oname) # NoField
              THEN Store(h, old.id, other_field(other, old.id, oname), None)
              ELSE h
    IN  IF ne = "E" THEN Raised(h, "RecursionError", d)
        ELSE IF ne = "T" THEN SetAttr(h0, other, oname, Ref(self), d + 1)
        ELSE Returned(h, d)

\* the other side is single-valued: set it unless it already equals self
SyncInstance(h, self, other, oname, d) ==
    LET ne == PyNe(h, h[other][oname], Ref(self))
    IN  IF ne = "E" THEN Raised(h, "RecursionError", d)
        ELSE IF ne = "T" THEN SetAttr(h, other, oname, Ref(self), d + 1)
        ELSE Returned(h, d)

\* the other side is multi-valued: start a list, or append self unless it
\* is in the list
SyncList(h, self, other, oname, d) ==
    LET cur == h[other][oname]
    IN  IF cur.k # "list" THEN SetAttr(h, other, oname, RawList(<<Ref(self)>>), d + 1)
        ELSE LET c == Contains(h, cur.items, Ref(self))
             IN  IF c = "E" THEN Raised(h, "RecursionError", d)
                 ELSE IF c = "F"
                      THEN Returned([h EXCEPT ![other][oname].items = Append(@, Ref(self))], d)
                      ELSE Returned(h, d)

\* what follows the store of a value that is no list and no dict: nothing
\* unless it is an instance, the field a relationship and the other side has
\* a field for it
Synchronize(h1, self, name, value, d) ==
    IF value.k # "obj" THEN Returned(h1, d)
    ELSE IF FieldStorage(ClassOf(self), name) \notin {"LOCAL_KEY", "FOREIGN_KEY"}
         THEN Returned(h1, d)
    ELSE LET oname == other_field(self, value.id, name)
         IN  IF oname = NoField THEN Returned(h1, d)
             ELSE IF FieldType(ClassOf(value.id), oname) = "INSTANCE"
                  THEN SyncInstance(h1, self, value.id, oname, d)
             ELSE IF FieldType(ClassOf(value.id), oname) = "LIST"
                  THEN SyncList(h1, self, value.id, oname, d)
             ELSE Returned(h1, d)

\* a variant that treats the first item of an assigned list as it treats an
\* assigned instance
SetAttrSyncsItems(h, self, name, value, d) ==
    IF value.k = "list"
    THEN LET h1 == Store(h, self, name, OwnedList(value.items, self, name))
         IN  IF value.items # <<>>
             THEN Synchronize(h1, self, name, value.items[1], d)
             ELSE Returned(h1, d)
    ELSE IF value.k = "dict"
    THEN Returned(Store(h, self, name, OwnedDict(value.items, self, name)), d)
    ELSE Synchronize(Store(h, self, name, value), self, name, value, d)

\* a variant that stores a collection that has an owner as it is
SetAttrKeepsOwned(h, self, name, value, d) ==
    IF value.k \in {"list", "dict"} /\ value.owner # ""
    THEN Returned(Store(h, self, name, value), d)
    ELSE IF value.k = "list"
    THEN Returned(Store(h, self, name, OwnedList(value.items, self, name)), d)
    ELSE IF value.k = "dict"
    THEN Returned(Store(h, self, name, OwnedDict(value.items, self, name)), d)
    ELSE Synchronize(Store(h, self, name, value), self, name, value, d)

\* self.name = value, at nesting depth d of the hook
SetAttr(h, self, name, value, d) ==
    IF value.k = "list"
    THEN Returned(Store(h, self, name, OwnedList(value.items, self, name)), d)
    ELSE IF value.k = "dict"
    THEN Returned(Store(h, self, name, OwnedDict(value.items, self, name)), d)
    ELSE Synchronize(Store(h, self, name, value), self, name, value, d)

----------------------------------------------------------------------------
(* JSONObject.update                                                       *)

RECURSIVE SetAll(_, _, _, _)

\* the outcome of a loop whose deepest hook call so far nested d levels
Deepest(rest, d) == [rest EXCEPT !.depth = IF d > @ THEN d ELSE @]

\* the loop after the assignment of argument i ended as r: an exception
\* ends it, otherwise it goes on with the next argument
SetRest(r, self, kwargs, i) ==
    IF r.exc # "none"
    THEN [heap |-> r.heap, exc |-> r.exc, ret |-> None, keys |-> {}, depth |-> r.depth]
    ELSE Deepest(SetAll(r.heap, self, kwargs, i + 1), r.depth)

\* for key, item in kwargs.items(): setattr(self, key, item)
SetAll(h, self, kwargs, i) ==
    IF i > Len(kwargs)
    THEN [heap |-> h, exc |-> "none", ret |-> Ref(self), keys |-> {}, depth |-> 0]
    ELSE SetRest(SetAttr(h, self, kwargs[i][1], kwargs[i][2], 1), self, kwargs, i)

\* a variant that names only one of the offending keys
updateNamesOneKey(h, self, kwargs) ==
    LET unallowed_keys == KeysOf(kwargs) \ DOMAIN h[self]
    IN  IF Cardinality(unallowed_keys) > 0
        THEN [heap |-> h, exc |-> "ValueError", ret |-> None,
              keys |-> {CHOOSE key \in unallowed_keys : TRUE}, depth |-> 0]
        ELSE SetAll(h, self, kwargs, 1)

\* a variant that assigns the keys it knows before it rejects the call
updateAssignsFirst(h, self, kwargs) ==
    LET unallowed_keys == KeysOf(kwargs) \ DOMAIN h[self]
        known == SelectSeq(kwargs, LAMBDA kv : kv[1] \in DOMAIN h[self])
    IN  IF Cardinality(unallowed_keys) > 0
        THEN [heap |-> SetAll(h, self, known, 1).heap, exc |-> "ValueError",
              ret |-> None, keys |-> unallowed_keys, depth |-> 0]
        ELSE SetAll(h, self, kwargs, 1)

\* self.update(**kwargs); keys are the keys the error message names
update(h, self, kwargs) ==
    LET unallowed_keys == KeysOf(kwargs) \ DOMAIN h[self]
    IN  IF Cardinality(unallowed_keys) > 0
        THEN [heap |-> h, exc |-> "ValueError", ret |-> None, keys |-> unallowed_keys,
              depth |-> 0]
        ELSE SetAll(h, self, kwargs, 1)

----------------------------------------------------------------------------
(* LookupMap                                                               *)

\* LookupMap(): a new Lookup Map, nothing marked in it
LookupMap == {}

----------------------------------------------------------------------------
(* JSONObject.set                                                          *)

\* the input value of a scalar field passes its eager validation: the
\* scalar fields are declared int
Accepts(cls, f, v) == FieldType(cls, f) # "SCALAR" \/ v.k \in {"int", "none"}

\* whether the transform may write the field: not ReadOnly or Internal, and
\* WriteOnce only while the field holds None
Writable(h, dest, f) ==
    /\ Accessor(ClassOf(dest), f) \notin {"ReadOnly", "Internal"}
    /\ Accessor(ClassOf(dest), f) = "WriteOnce" => (f \in DOMAIN h[dest] => h[dest][f] = None)

\* InstanceOfValidator(cls).transform(context): the declared fields in
\* order, each one taken from the input, filled, or left alone
RECURSIVE Transform(_, _, _, _, _)

\* the transform after the assignment of field i ended as r
TransformRest(r, dest, kwargs, fill_dest_blanks, i) ==
    IF r.exc # "none" THEN [heap |-> r.heap, exc |-> r.exc]
    ELSE Transform(r.heap, dest, kwargs, fill_dest_blanks, i + 1)

Transform(h, dest, kwargs, fill_dest_blanks, i) ==
    IF i > Len(FieldsOf(ClassOf(dest))) THEN [heap |-> h, exc |-> "none"]
    ELSE LET f == FieldsOf(ClassOf(dest))[i]
         IN  IF HasKey(kwargs, f) /\ Writable(h, dest, f)
             THEN IF ~Accepts(ClassOf(dest), f, ValueOf(kwargs, f))
                  THEN [heap |-> h, exc |-> "ValidationException"]
                  ELSE TransformRest(SetAttr(h, dest, f, ValueOf(kwargs, f), 1),
                                     dest, kwargs, fill_dest_blanks, i)
             ELSE IF ~HasKey(kwargs, f) /\ fill_dest_blanks
             THEN Transform(SetAttr(h, dest, f, None, 1).heap, dest, kwargs,
                            fill_dest_blanks, i + 1)
             ELSE Transform(h, dest, kwargs, fill_dest_blanks, i + 1)

\* the outcome r of a transform that was given a Lookup Map of its own
\* (the transform of scalar fields marks nothing in it)
WithLookupMap(r) == [heap |-> r.heap, exc |-> r.exc, maps |-> 1, lm |-> LookupMap]

\* self.__set(fill_blanks, **kwargs): the transform with dest = self and a
\* new Lookup Map
JSONObject__set(h, self, fill_blanks, kwargs) ==
    WithLookupMap(Transform(h, self, kwargs, fill_blanks, 1))

\* return self, unless the call raised
ReturnSelf(r, self) ==
    [heap |-> r.heap, exc |-> r.exc,
     ret |-> IF r.exc = "none" THEN Ref(self) ELSE None, maps |-> r.maps, lm |-> r.lm]

\* a variant that starts over as __init__ does: every field None, blanks filled
setLikeInit(h, self, kwargs) ==
    ReturnSelf(JSONObject__set([h EXCEPT ![self] = [f \in DOMAIN h[self] |-> None]],
                               self, TRUE, kwargs), self)

\* a variant that fills the blanks
setFillsBlanks(h, self, kwargs) == ReturnSelf(JSONObject__set(h, self, TRUE, kwargs), self)

\* self.set(**kwargs)
set(h, self, kwargs) == ReturnSelf(JSONObject__set(h, self, FALSE, kwargs), self)

----------------------------------------------------------------------------
(* JSONObject.__init__                                                     *)

\* for field in dataclass_fields(self): setattr(self, field.name, None)
RECURSIVE SetNone(_, _, _)
SetNone(h, self, i) ==
    IF i > Len(FieldsOf(ClassOf(self))) THEN h
    ELSE SetNone(SetAttr(h, self, FieldsOf(ClassOf(self))[i], None, 1).heap, self, i + 1)

\* a variant without the loop that sets the fields to None, and whose
\* transform leaves alone what the input does not name
initSkipsBlanks(h, self, kwargs) == JSONObject__set(h, self, FALSE, kwargs)

\* self.__init__(**kwargs), on an instance that has no attribute yet
JSONObject__init__(h, self, kwargs) ==
    JSONObject__set(SetNone(h, self, 1), self, TRUE, kwargs)

----------------------------------------------------------------------------
(* The traversal that validate and tojson start: InstanceOfValidator over  *)
(* a context that carries the Lookup Map.  An instance is marked in the    *)
(* Lookup Map when it is processed and is not entered again; its fields    *)
(* are walked in declaration order, depth first.                           *)

\* the validator of a field: A.tag is required, the others are optional
FieldValid(cls, f, v) == IF cls = "A" /\ f = "tag" THEN v.k = "int" ELSE TRUE

\* a traversal's state: the Lookup Map, the instances processed in order,
\* the keypaths found invalid, and whether the call stack ran out
NewWalk(lookup_map) == [lm |-> lookup_map, visits |-> <<>>, errs |-> <<>>, overflow |-> FALSE]

Stopped(st, mode, all_fields) ==
    st.overflow \/ (mode = "validate" /\ ~all_fields /\ st.errs # <<>>)

RECURSIVE WalkObj(_, _, _, _, _, _, _)
RECURSIVE WalkFields(_, _, _, _, _, _, _, _)
RECURSIVE WalkItems(_, _, _, _, _, _, _, _)

\* a variant that enters an instance whether or not the Lookup Map has it
WalkValueNoLookup(h, v, path, st, d, mode, all_fields) ==
    IF v.k = "obj" THEN WalkObj(h, v.id, path, st, d + 1, mode, all_fields)
    ELSE IF v.k = "list" THEN WalkItems(h, v.items, 1, path, st, d, mode, all_fields)
    ELSE st

\* a nested value: an instance is entered unless the Lookup Map has it, a
\* list is walked item by item
WalkValue(h, v, path, st, d, mode, all_fields) ==
    IF v.k = "obj"
    THEN IF v.id \in st.lm THEN st
         ELSE WalkObj(h, v.id, path, st, d + 1, mode, all_fields)
    ELSE IF v.k = "list" THEN WalkItems(h, v.items, 1, path, st, d, mode, all_fields)
    ELSE st

WalkItems(h, items, i, path, st, d, mode, all_fields) ==
    IF i > Len(items) \/ Stopped(st, mode, all_fields) THEN st
    ELSE WalkItems(h, items, i + 1, path,
                   WalkValue(h, items[i], Append(path, i), st, d, mode, all_fields),
                   d, mode, all_fields)

WalkFields(h, o, i, path, st, d, mode, all_fields) ==
    IF i > Len(FieldsOf(ClassOf(o))) \/ Stopped(st, mode, all_fields) THEN st
    ELSE LET f == FieldsOf(ClassOf(o))[i]
             v == h[o][f]
             checked == IF mode = "validate" /\ ~FieldValid(ClassOf(o), f, v)
                        THEN [st EXCEPT !.errs = Append(@, Append(path, f))]
                        ELSE st
             walked == IF Stopped(checked, mode, all_fields) THEN checked
                       ELSE WalkValue(h, v, Append(path, f), checked, d, mode, all_fields)
         IN  WalkFields(h, o, i + 1, path, walked, d, mode, all_fields)

\* process the instance o at depth d of the call stack
WalkObj(h, o, path, st, d, mode, all_fields) ==
    IF d > MaxDepth THEN [st EXCEPT !.overflow = TRUE]
    ELSE WalkFields(h, o, 1, path,
                    [st EXCEPT !.lm = @ \cup {o}, !.visits = Append(@, o)],
                    d, mode, all_fields)

\* InstanceOfValidator(cls).validate(context) and .tojson(context)
Traverse(h, root, lookup_map, mode, all_fields) ==
    LET st == WalkObj(h, root, <<>>, NewWalk(lookup_map), 1, mode, all_fields)
    IN  [exc |-> IF st.overflow THEN "RecursionError"
                 ELSE IF st.errs # <<>> THEN "ValidationException" ELSE "none",
         visits |-> st.visits,
         errs |-> st.errs,
         lm |-> st.lm]

----------------------------------------------------------------------------
(* JSONObject.validate, is_valid and tojson                                *)

\* a variant that keeps one Lookup Map for all calls: the traversal starts
\* with what the call before left marked
validateReusesMap(h, self, all_fields) ==
    LET r == Traverse(h, self, res.lm, "validate", all_fields)
    IN  [exc |-> r.exc, ret |-> IF r.exc = "none" THEN Ref(self) ELSE None,
         visits |-> r.visits, errs |-> r.errs, maps |-> 0, lm |-> r.lm]

\* self.validate(all_fields): a fresh Lookup Map, then the traversal; maps
\* counts the Lookup Maps the call created, lm is the map as the call left it
validate(h, self, all_fields) ==
    LET r == Traverse(h, self, LookupMap, "validate", all_fields)
    IN  [exc |-> r.exc, ret |-> IF r.exc = "none" THEN Ref(self) ELSE None,
         visits |-> r.visits, errs |-> r.errs, maps |-> 1, lm |-> r.lm]

\* a variant without the except clause
is_validNoExcept(h, self) ==
    LET r == validate(h, self, FALSE)
    IN  [exc |-> r.exc, ret |-> IF r.exc = "none" THEN True ELSE None, visits |-> r.visits,
         maps |-> r.maps, lm |-> r.lm]

\* self.is_valid(): False when validate raises ValidationException
is_valid(h, self) ==
    LET r == validate(h, self, FALSE)
    IN  IF r.exc = "ValidationException"
        THEN [exc |-> "none", ret |-> False, visits |-> r.visits, maps |-> r.maps, lm |-> r.lm]
        ELSE IF r.exc = "none"
        THEN [exc |-> "none", ret |-> True, visits |-> r.visits, maps |-> r.maps, lm |-> r.lm]
        ELSE [exc |-> r.exc, ret |-> None, visits |-> r.visits, maps |-> r.maps, lm |-> r.lm]

\* ToJSONContext(value, config, ignore_writeonly): the caller names no
\* Lookup Map, the context of a serializing traversal brings its own
ToJSONContext(value) == [value |-> value, lookup_map |-> LookupMap, maps |-> 1]

\* self.tojson(): the traversal in serializing mode; of the dict it returns
\* only the instances serialized into it are kept
tojson(h, self) ==
    LET context == ToJSONContext(self)
        r == Traverse(h, context.value, context.lookup_map, "tojson", TRUE)
    IN  [exc |-> r.exc,
         ret |-> IF r.exc = "none" THEN [k |-> "json", of |-> r.visits] ELSE None,
         visits |-> r.visits, maps |-> context.maps, lm |-> r.lm]

----------------------------------------------------------------------------
(* The values a caller passes.                                             *)

RelObjs == AObjs \cup BObjs

ListsOver(S) == UNION {[1..n -> {Ref(o) : o \in S}] : n \in 0..MaxListLen}

\* values of the declared type of a field
ValuesFor(cls, f) ==
    CASE cls = "A" /\ f = "tag" -> {None, PyInt(1)}
      [] cls = "A" /\ f \in {"one", "many"} -> {None} \cup {Ref(o) : o \in BObjs}
      [] cls = "B" /\ f = "back" -> {None} \cup {Ref(o) : o \in AObjs}
      [] cls = "B" /\ f = "items" -> {None} \cup {RawList(l) : l \in ListsOver(AObjs)}
      [] OTHER -> {None, PyInt(1), PyInt(2)}

\* keys that no class declares
UnknownKeys == {"x", "y"}

\* one keyword argument: a declared field with a value of its type, or an
\* unknown key
Kw(cls) ==
    UNION {{<<f, v>> : v \in ValuesFor(cls, f)} : f \in FieldNames(cls)}
        \cup {<<key, PyInt(1)>> : key \in UnknownKeys}

\* the keyword arguments of one call: one argument, or two with distinct
\* keys whose values are ints or instances
UpdateKwargs(cls) ==
    {<<kv>> : kv \in Kw(cls)}
        \cup {s \in Kw(cls) \X Kw(cls) :
                s[1][1] # s[2][1] /\ s[1][2].k \in {"int", "obj"} /\ s[2][2].k \in {"int", "obj"}}

\* untrusted input for a scalar field: an int, or a string where an int
\* is declared
InputsFor(cls, f) == {PyInt(1), PyInt(2), PyStr("x")}

KwIn(cls) == UNION {{<<f, v>> : v \in InputsFor(cls, f)} : f \in FieldNames(cls)}

FieldIndex(cls, f) == CHOOSE i \in 1..Len(FieldsOf(cls)) : FieldsOf(cls)[i] = f

\* the keyword arguments of one set or constructor call: none, one, or two
\* with distinct keys (in the order of the fields: the transform does not
\* read the order)
SetKwargs(cls) ==
    {<<>>} \cup {<<kv>> : kv \in KwIn(cls)}
           \cup {s \in KwIn(cls) \X KwIn(cls) :
                    FieldIndex(cls, s[1][1]) < FieldIndex(cls, s[2][1])}

\* one keyword argument of an update call
OneKwarg(cls) == {kwargs \in UpdateKwargs(cls) : Len(kwargs) = 1}

\* the instances a caller of SpecHook assigns to, and the instances it assigns
HookObjs == {"a1", "a2", "b1"}
HookRefs == {"a1", "a2", "b1", "c1"}

\* a value of any kind: the hook takes whatever it is given, whatever the
\* field is declared to hold
Collections == {RawDict(<<<<"k", PyInt(1)>>>>)} \cup {RawList(l) : l \in ListsOver({"a1"})}
AnyValues == {None, PyInt(1)} \cup Collections \cup {Ref(o) : o \in HookRefs}

Classes == {"A", "B", "C"}
UpdateInputs == [cls \in Classes |-> UpdateKwargs(cls)]
SetInputs == [cls \in Classes |-> SetKwargs(cls)]
AssignInputs == [cls \in Classes |-> [f \in FieldNames(cls) |-> ValuesFor(cls, f)]]
OneKwargInputs == [cls \in Classes |-> OneKwarg(cls)]

----------------------------------------------------------------------------
(* The state machine.                                                      *)

NoCall == [op |-> "none", self |-> "", kwargs |-> <<>>]
NoRes == [exc |-> "none", ret |-> None, keys |-> {}, depth |-> 0, visits |-> <<>>,
          maps |-> 0, lm |-> {}, stale |-> {}]

\* how a call ended; stale is what the call before it left marked in its
\* Lookup Map
Result(exc, ret, keys, depth, visits, maps, lm) ==
    [exc |-> exc, ret |-> ret, keys |-> keys, depth |-> depth, visits |-> visits,
     maps |-> maps, lm |-> lm, stale |-> res.lm]

\* every instance as JSONObject.__init__() leaves it: each field None
Init ==
    /\ heap = [o \in Objs |-> [f \in FieldNames(ClassOf(o)) |-> None]]
    /\ call = NoCall
    /\ pre = heap
    /\ res = NoRes
    /\ nops = 0

\* a call that ended as r and left the heap r.heap
Write(op, self, kwargs, r, ret, keys, depth, maps, lm) ==
    /\ heap' = r.heap
    /\ call' = [op |-> op, self |-> self, kwargs |-> kwargs]
    /\ pre' = heap
    /\ res' = Result(r.exc, ret, keys, depth, <<>>, maps, lm)
    /\ nops' = nops + 1

\* the hook ran for self.name = value and ended as r
Assigned(self, name, value, r) ==
    Write("setattr", self, <<<<name, value>>>>, r, None, {}, r.depth, 0, {})

\* a direct assignment self.name = value
Assign(self, name, value) ==
    /\ nops < MaxOps
    /\ Assigned(self, name, value, SetAttr(heap, self, name, value, 1))

\* self.update(**kwargs) ended as r
Updated(self, kwargs, r) == Write("update", self, kwargs, r, r.ret, r.keys, r.depth, 0, {})

\* self.update(**kwargs)
Update(self, kwargs) ==
    /\ nops < MaxUpdates
    /\ Updated(self, kwargs, update(heap, self, kwargs))

\* a call that reads the heap and leaves it alone
Read(op, self, kwargs, r) ==
    /\ nops < MaxOps
    /\ heap' = heap
    /\ call' = [op |-> op, self |-> self, kwargs |-> kwargs]
    /\ pre' = heap
    /\ res' = Result(r.exc, r.ret, {}, 0, r.visits, r.maps, r.lm)
    /\ nops' = nops + 1

\* self.validate(all_fields)
Validate(self, all_fields) ==
    Read("validate", self, <<<<"all_fields", IF all_fields THEN True ELSE False>>>>,
         validate(heap, self, all_fields))

\* self.is_valid()
IsValid(self) == Read("is_valid", self, <<>>, is_valid(heap, self))

\* self.tojson()
ToJson(self) == Read("tojson", self, <<>>, tojson(heap, self))

\* self.set(**kwargs) ended as r
WasSet(self, kwargs, r) == Write("set", self, kwargs, r, r.ret, {}, 0, r.maps, r.lm)

\* self.set(**kwargs)
Set(self, kwargs) ==
    /\ nops < MaxOps
    /\ WasSet(self, kwargs, set(heap, self, kwargs))

\* assignments to the related instances, and the calls that walk them
Next ==
    \/ \E self \in RelObjs : \E name \in FieldNames(ClassOf(self)) :
          \E value \in AssignInputs[ClassOf(self)][name] : Assign(self, name, value)
    \/ \E self \in RelObjs : \E all_fields \in BOOLEAN : Validate(self, all_fields)
    \/ \E self \in RelObjs : IsValid(self)
    \/ \E self \in RelObjs : ToJson(self)

Spec == Init /\ [][Next]_vars

\* updates of the related instances
NextUpdate ==
    \E self \in RelObjs : \E kwargs \in UpdateInputs[ClassOf(self)] : Update(self, kwargs)

SpecUpdate == Init /\ [][NextUpdate]_vars

\* a direct assignment of a value of any kind
AssignAny(self, name, value) ==
    /\ nops < MaxAssigns
    /\ Assigned(self, name, value, SetAttr(heap, self, name, value, 1))

\* self.name = other.oname, where other.oname holds a collection
AssignFrom(self, name, other, oname) ==
    /\ heap[other][oname].k \in {"list", "dict"}
    /\ AssignAny(self, name, heap[other][oname])

\* self.update(name=value) with a value of any kind
UpdateAny(self, name, value) ==
    /\ nops < MaxAssigns
    /\ Update(self, <<<<name, value>>>>)

\* assignments and updates that hand the hook values of any kind
NextHook ==
    \/ \E self \in HookObjs : \E name \in FieldNames(ClassOf(self)) :
          \E value \in AnyValues : AssignAny(self, name, value)
    \/ \E self \in HookObjs : \E name \in FieldNames(ClassOf(self)) :
          \E other \in HookObjs : \E oname \in FieldNames(ClassOf(other)) :
             AssignFrom(self, name, other, oname)
    \/ \E self \in HookObjs : \E name \in FieldNames(ClassOf(self)) :
          \E value \in Collections \cup {Ref(o) : o \in HookRefs} : UpdateAny(self, name, value)

SpecHook == Init /\ [][NextHook]_vars

\* set and update on the instance with accessor-marked fields
NextSet ==
    \/ \E self \in CObjs : \E kwargs \in SetInputs[ClassOf(self)] : Set(self, kwargs)
    \/ \E self \in CObjs : \E kwargs \in UpdateInputs[ClassOf(self)] : Update(self, kwargs)

SpecSet == Init /\ [][NextSet]_vars

\* an instance that object.__new__ has made and __init__ has not run on: it
\* has no attribute
Blank == <<>>

\* the instances of the class with accessor marks are still to be constructed
InitBlank ==
    /\ heap = [o \in Objs |-> IF o \in CObjs THEN Blank
                              ELSE [f \in FieldNames(ClassOf(o)) |-> None]]
    /\ call = NoCall
    /\ pre = heap
    /\ res = NoRes
    /\ nops = 0

\* __init__ ended as r: when it raised, the caller gets no instance
Constructed(self, kwargs, r) ==
    /\ heap' = IF r.exc = "none" THEN r.heap ELSE heap
    /\ call' = [op |-> "construct", self |-> self, kwargs |-> kwargs]
    /\ pre' = heap
    /\ res' = Result(r.exc, r.ret, {}, 0, <<>>, r.maps, r.lm)
    /\ nops' = nops + 1

\* self = cls(**kwargs)
Construct(self, kwargs) ==
    /\ nops < MaxOps
    /\ heap[self] = Blank
    /\ Constructed(self, kwargs, ReturnSelf(JSONObject__init__(heap, self, kwargs), self))

\* construction of an instance, then set and update calls on it
NextConstruct ==
    \/ \E self \in CObjs : \E kwargs \in SetInputs[ClassOf(self)] : Construct(self, kwargs)
    \/ \E self \in CObjs : \E kwargs \in SetInputs[ClassOf(self)] :
          heap[self] # Blank /\ Set(self, kwargs)
    \/ \E self \in CObjs : \E kwargs \in OneKwargInputs[ClassOf(self)] :
          heap[self] # Blank /\ Update(self, kwargs)

SpecConstruct == InitBlank /\ [][NextConstruct]_vars

----------------------------------------------------------------------------
(* What the last call was.                                                 *)

CallSelf == call.self
CallName == call.kwargs[1][1]
CallValue == call.kwargs[1][2]

\* the last call was self.name = <instance>, on a relationship field whose
\* other side has the given kind, and it returned
SyncedAssign(kind) ==
    /\ call.op = "setattr"
    /\ res.exc = "none"
    /\ CallValue.k = "obj"
    /\ FieldStorage(ClassOf(CallSelf), CallName) \in {"LOCAL_KEY", "FOREIGN_KEY"}
    /\ other_field(CallSelf, CallValue.id, CallName) # NoField
    /\ FieldType(ClassOf(CallValue.id), other_field(CallSelf, CallValue.id, CallName)) = kind

\* the attribute on the other side of the last assignment, in heap h
OtherSide(h) == h[CallValue.id][other_field(CallSelf, CallValue.id, CallName)]

\* how many items of a list are the instance o itself
RECURSIVE Count(_, _)
Count(items, o) ==
    IF items = <<>> THEN 0
    ELSE (IF Head(items) = Ref(o) THEN 1 ELSE 0) + Count(Tail(items), o)

\* what is stored for a supplied value: the value, or a collection of its items
Holds(stored, v) ==
    IF v.k \in {"list", "dict"} THEN stored.k = v.k /\ stored.items = v.items
    ELSE stored = v

----------------------------------------------------------------------------
(* C1: one-to-many symmetry.  After a.rel = b, with b's inverse field      *)
(* multi-valued, a is in b's inverse list; and if the list was [a1] from   *)
(* a1.rel = b with a1 another instance, it is [a1, a] afterwards, also     *)
(* when a1 and a have equal field values.                                  *)
C1_OneToManySymmetry ==
    SyncedAssign("LIST") =>
        /\ OtherSide(heap).k = "list"
        /\ Count(OtherSide(heap).items, CallSelf) >= 1
        /\ \A a1 \in Objs \ {CallSelf} :
              ( /\ OtherSide(pre).k = "list"
                /\ OtherSide(pre).items = <<Ref(a1)>>
                /\ ClassOf(a1) = ClassOf(CallSelf)
                /\ pre[a1][CallName] = CallValue )
              => OtherSide(heap).items = <<Ref(a1), Ref(CallSelf)>>

(* C2: one-to-one symmetry.  After a.rel = b, with rel of LocalKey or      *)
(* ForeignKey storage and b's inverse field single-valued, b's inverse     *)
(* field is a, whatever it held before.                                    *)
C2_OneToOneSymmetry ==
    SyncedAssign("INSTANCE") => OtherSide(heap) = Ref(CallSelf)

(* C3: idempotent synchronization.  After a.rel = b is assigned and then   *)
(* assigned again, b's inverse list holds a exactly once; and an assignment*)
(* never appends an instance the list already holds.                       *)
C3_IdempotentSync ==
    (SyncedAssign("LIST") /\ (OtherSide(pre).k = "list" => Count(OtherSide(pre).items, CallSelf) <= 1)) =>
        LET again == SetAttr(heap, CallSelf, CallName, CallValue, 1).heap
        IN  /\ OtherSide(again).k = "list"
            /\ Count(OtherSide(again).items, CallSelf) = 1
            /\ (OtherSide(pre).k = "list" /\ Count(OtherSide(pre).items, CallSelf) = 1)
                   => OtherSide(heap) = OtherSide(pre)

(* C4: update fails with the key-mismatch error exactly when some key is   *)
(* not an attribute of the instance, and the error names every such key.   *)
C4_KeyMismatch ==
    call.op = "update" =>
        LET offending == KeysOf(call.kwargs) \ DOMAIN pre[CallSelf]
        IN  /\ (res.exc = "ValueError") <=> (offending # {})
            /\ res.exc = "ValueError" => res.keys = offending

C4_Witness ==
    /\ call.op = "update"
    /\ res.exc = "ValueError"
    /\ Cardinality(res.keys) = 2

(* C5: an update that fails for an unknown key has modified no attribute   *)
(* of any instance.                                                        *)
C5_AllOrNothing ==
    (call.op = "update" /\ res.exc = "ValueError") => heap = pre

\* a failed update whose first argument alone would have linked two instances
C5_Witness ==
    /\ call.op = "update"
    /\ res.exc = "ValueError"
    /\ Len(call.kwargs) = 2
    /\ CallName \in DOMAIN pre[CallSelf]
    /\ CallValue.k = "obj"
    /\ pre[CallSelf][CallName] # CallValue
    /\ SetAttr(pre, CallSelf, CallName, CallValue, 1).heap[CallValue.id] # pre[CallValue.id]

(* C6: an update whose keys are all attributes succeeds, returns the       *)
(* instance, leaves each named attribute holding the supplied value and    *)
(* leaves the attributes it does not name unchanged.                       *)
C6_UpdateVerbatim ==
    (call.op = "update" /\ KeysOf(call.kwargs) \subseteq DOMAIN pre[CallSelf]) =>
        /\ res.exc = "none"
        /\ res.ret = Ref(CallSelf)
        /\ \A i \in 1..Len(call.kwargs) :
              Holds(heap[CallSelf][call.kwargs[i][1]], call.kwargs[i][2])
        /\ \A f \in DOMAIN pre[CallSelf] \ KeysOf(call.kwargs) :
              heap[CallSelf][f] = pre[CallSelf][f]

\* how many times a traversal processed the instance o
RECURSIVE CountId(_, _)
CountId(visits, o) ==
    IF visits = <<>> THEN 0
    ELSE (IF Head(visits) = o THEN 1 ELSE 0) + CountId(Tail(visits), o)

C8_IsValidNeverRaises ==
    call.op = "is_valid" =>
        /\ res.exc = "none"
        /\ res.ret \in {True, False}
        /\ (res.ret = False) <=> (validate(pre, CallSelf, FALSE).exc # "none")
        /\ heap = pre

\* is_valid() answered False for an instance linked to another one
C8_Witness ==
    /\ call.op = "is_valid"
    /\ res.ret = False
    /\ \E f \in DOMAIN heap[CallSelf] : heap[CallSelf][f].k = "obj"

(* C9: WriteOnce through set.  set(once=X) on an instance whose once       *)
(* field is None, when it returns, leaves once = X; a set call on an       *)
(* instance whose once field is not None leaves it as it is, and a call    *)
(* set(once=Z) on such an instance raises nothing.                         *)
C9_WriteOnce ==
    (call.op = "set" /\ Accessor(ClassOf(CallSelf), "once") = "WriteOnce") =>
        /\ (HasKey(call.kwargs, "once") /\ pre[CallSelf]["once"] = None /\ res.exc = "none")
              => heap[CallSelf]["once"] = ValueOf(call.kwargs, "once")
        /\ pre[CallSelf]["once"] # None => heap[CallSelf]["once"] = pre[CallSelf]["once"]
        /\ (pre[CallSelf]["once"] # None /\ KeysOf(call.kwargs) = {"once"})
              => res.exc = "none" /\ res.ret = Ref(CallSelf)

\* set(once=Z) on an instance whose once field holds another value X
C9_Witness ==
    /\ call.op = "set"
    /\ res.exc = "none"
    /\ KeysOf(call.kwargs) = {"once"}
    /\ pre[CallSelf]["once"] \notin {None, ValueOf(call.kwargs, "once")}
    /\ heap[CallSelf]["once"] = pre[CallSelf]["once"]

(* C10: accessor marks in set.  A set call leaves every ReadOnly and       *)
(* Internal field as it is and raises nothing on account of one, returns   *)
(* the instance, and leaves the fields that its input does not name        *)
(* untouched.                                                              *)
C10_AccessorMarks ==
    call.op = "set" =>
        /\ \A f \in DOMAIN pre[CallSelf] :
              (Accessor(ClassOf(CallSelf), f) \in {"ReadOnly", "Internal"}
                  \/ ~HasKey(call.kwargs, f))
              => heap[CallSelf][f] = pre[CallSelf][f]
        /\ (\A f \in KeysOf(call.kwargs) :
               Accessor(ClassOf(CallSelf), f) \in {"ReadOnly", "Internal"})
              => res.exc = "none"
        /\ res.exc = "none" => res.ret = Ref(CallSelf)

\* set(ro=X) on an instance whose ro field holds another value Y
C10_Witness ==
    /\ call.op = "set"
    /\ KeysOf(call.kwargs) = {"ro"}
    /\ pre[CallSelf]["ro"] \notin {None, ValueOf(call.kwargs, "ro")}
    /\ heap[CallSelf]["ro"] = pre[CallSelf]["ro"]
    /\ res.ret = Ref(CallSelf)

----------------------------------------------------------------------------
(* The instances a traversal from an instance has to process.              *)

\* the instances a value refers to: itself, or the items of a list
RefsOf(v) ==
    IF v.k = "obj" THEN {v.id}
    ELSE IF v.k = "list" THEN {v.items[i].id : i \in {j \in 1..Len(v.items) : v.items[j].k = "obj"}}
    ELSE {}

\* the instances the attributes of o refer to
Linked(h, o) == UNION {RefsOf(h[o][f]) : f \in DOMAIN h[o]}

\* the instances that can be reached from the ones in seen
RECURSIVE ReachFrom(_, _)
ReachFrom(h, seen) ==
    LET more == seen \cup UNION {Linked(h, o) : o \in seen}
    IN  IF more = seen THEN seen ELSE ReachFrom(h, more)

Reach(h, o) == ReachFrom(h, {o})

\* the instances a traversal processed
Visited == {res.visits[i] : i \in 1..Len(res.visits)}

\* the last call was a traversal that ran to its end: tojson, or a
\* validation that found nothing or was told to collect every error
WalkedAll ==
    \/ call.op = "tojson" /\ res.exc = "none"
    \/ call.op = "validate" /\ (res.exc = "none" \/ CallValue = True)
    \/ call.op = "is_valid" /\ res.ret = True

C12_FieldsExist ==
    /\ \A o \in Objs : heap[o] # Blank => FieldNames(ClassOf(o)) \subseteq DOMAIN heap[o]
    /\ (call.op = "construct" /\ res.exc = "none") =>
          /\ pre[CallSelf] = Blank
          /\ DOMAIN heap[CallSelf] = FieldNames(ClassOf(CallSelf))
          /\ \A f \in FieldNames(ClassOf(CallSelf)) :
                heap[CallSelf][f] =
                    IF HasKey(call.kwargs, f)
                          /\ Accessor(ClassOf(CallSelf), f) \notin {"ReadOnly", "Internal"}
                    THEN ValueOf(call.kwargs, f) ELSE None

\* a constructor call whose input names one field: that field holds the
\* input's value and the other declared fields are there, holding None
C12_Witness ==
    /\ call.op = "construct"
    /\ res.exc = "none"
    /\ KeysOf(call.kwargs) = {"pub"}
    /\ heap[CallSelf]["pub"] = PyInt(1)
    /\ \A f \in FieldNames(ClassOf(CallSelf)) \ {"pub"} :
          f \in DOMAIN heap[CallSelf] /\ heap[CallSelf][f] = None

(* C13: single-valued back-links are decided by identity.  On a.rel = b,   *)
(* with b's inverse field single-valued: if the inverse field held         *)
(* anything but the instance a itself (None, or another instance, equal to *)
(* a field by field or not) it is a afterwards; if it was a already, b is  *)
(* left as it was.                                                         *)
C13_IdentityBackLink ==
    SyncedAssign("INSTANCE") =>
        /\ OtherSide(pre) # Ref(CallSelf) => OtherSide(heap) = Ref(CallSelf)
        /\ OtherSide(pre) = Ref(CallSelf) => heap[CallValue.id] = pre[CallValue.id]

\* the list or dict came from an attribute: it has an owner
Attached(v) == v.k \in {"list", "dict"} /\ v.owner # ""

(* C14: the owned-collection invariant.  Whatever was assigned, by an      *)
(* assignment, an update or a synchronization, every attribute that holds  *)
(* a list or a dict holds one whose owner is the attribute's instance and  *)
(* whose keypath is the attribute's name; and when the value assigned was  *)
(* the collection of another attribute, that attribute holds the           *)
(* collection it held, with the owner and keypath it had.                  *)
C14_OwnedCollections ==
    /\ \A o \in Objs : \A f \in DOMAIN heap[o] :
          heap[o][f].k \in {"list", "dict"} =>
              heap[o][f].owner = o /\ heap[o][f].keypath = f
    /\ (call.op \in {"setattr", "update"} /\ call.kwargs # <<>> /\ Attached(CallValue)) =>
          /\ heap[CallSelf][CallName].items = CallValue.items
          /\ heap[CallValue.owner][CallValue.keypath] = CallValue

\* the list of one instance was assigned to an attribute of another
C14_Witness ==
    /\ call.op = "setattr"
    /\ Attached(CallValue)
    /\ CallValue.owner # CallSelf
    /\ CallValue.items # <<>>
    /\ heap[CallSelf][CallName] = OwnedList(CallValue.items, CallSelf, CallName)
    /\ heap[CallValue.owner][CallValue.keypath] = CallValue

\* the last assignment gave the synchronization nothing to do: its value
\* is no instance, or its field has Plain storage, or the class of the value
\* has no inverse field
NoTrigger ==
    \/ CallValue.k # "obj"
    \/ FieldStorage(ClassOf(CallSelf), CallName) = "PLAIN"
    \/ other_field(CallSelf, CallValue.id, CallName) = NoField

\* heap h with the attribute name of instance o left out
Without(h, o, name) ==
    [x \in DOMAIN h |-> IF x = o THEN [f \in DOMAIN h[x] \ {name} |-> h[x][f]] ELSE h[x]]

(* C15: the limited trigger.  An assignment x.f = v whose value is no      *)
(* instance (a scalar, None, a list or dict, a list of instances), whose   *)
(* field has Plain storage or whose value's class has no inverse field     *)
(* returns and changes no attribute but x.f: all other attributes of x and *)
(* all attributes of all other instances are as they were.                 *)
C15_LimitedTrigger ==
    (call.op = "setattr" /\ NoTrigger) =>
        /\ res.exc = "none"
        /\ res.depth = 1
        /\ Without(heap, CallSelf, CallName) = Without(pre, CallSelf, CallName)

\* a list of an instance was assigned to the List field of an instance
\* that the listed instance's own relationship field does not refer to
C15_Witness ==
    /\ call.op = "setattr"
    /\ CallValue.k = "list"
    /\ CallValue.items # <<>>
    /\ CallValue.items[1].k = "obj"
    /\ FieldType(ClassOf(CallSelf), CallName) = "LIST"
    /\ heap[CallValue.items[1].id]["many"] # Ref(CallSelf)
    /\ heap[CallSelf][CallName].items = CallValue.items

\* the last call reassigned a relationship field that held an instance: it
\* assigned another instance or None, and returned
Reassigned ==
    /\ call.op = "setattr"
    /\ res.exc = "none"
    /\ FieldStorage(ClassOf(CallSelf), CallName) \in {"LOCAL_KEY", "FOREIGN_KEY"}
    /\ pre[CallSelf][CallName].k = "obj"
    /\ CallValue.k \in {"obj", "none"}
    /\ CallValue # pre[CallSelf][CallName]

\* the instance the reassigned field held before, and its inverse field
OldSide == pre[CallSelf][CallName].id
OldField == other_field(CallSelf, OldSide, CallName)

\* the other side of the last assignment refers to the assigning instance,
\* or contains it
LinkedBack ==
    IF FieldType(ClassOf(CallValue.id), other_field(CallSelf, CallValue.id, CallName)) = "LIST"
    THEN OtherSide(heap).k = "list" /\ Count(OtherSide(heap).items, CallSelf) >= 1
    ELSE OtherSide(heap) = Ref(CallSelf)

(* C16: no stale-link cleanup.  When a.rel, which held c, is assigned b or *)
(* None, the inverse field of c is left exactly as it was; and when b is   *)
(* an instance with an inverse field, that field refers to a, or contains  *)
(* a, afterwards.                                                          *)
C16_NoStaleCleanup ==
    Reassigned =>
        /\ OldField # NoField => heap[OldSide][OldField] = pre[OldSide][OldField]
        /\ (CallValue.k = "obj" /\ other_field(CallSelf, CallValue.id, CallName) # NoField)
              => LinkedBack

(* C17: one-hop synchronization.  An assignment a.rel = b of an instance   *)
(* changes no attribute but a.rel and the inverse field of b: every other  *)
(* attribute of a and of b, and every attribute of every third instance    *)
(* (the one b's inverse field referred to before, and whatever a and b are *)
(* linked to), is as it was.                                               *)
C17_OneHop ==
    (call.op = "setattr" /\ CallValue.k = "obj") =>
        LET b == CallValue.id
            inv == other_field(CallSelf, b, CallName)
        IN  /\ \A o \in Objs \ {CallSelf, b} : heap[o] = pre[o]
            /\ \A f \in DOMAIN pre[CallSelf] \ {CallName} :
                  b # CallSelf => heap[CallSelf][f] = pre[CallSelf][f]
            /\ \A g \in DOMAIN pre[b] \ {inv} :
                  b # CallSelf => heap[b][g] = pre[b][g]
            /\ DOMAIN heap[CallSelf] = DOMAIN pre[CallSelf] \cup {CallName}
            /\ b # CallSelf => DOMAIN heap[b] = DOMAIN pre[b]

\* a.rel = b took b's inverse field over from a third instance, which
\* still refers to b
C17_Witness ==
    /\ SyncedAssign("INSTANCE")
    /\ OtherSide(pre).k = "obj"
    /\ OtherSide(pre) # Ref(CallSelf)
    /\ OtherSide(heap) = Ref(CallSelf)
    /\ pre[OtherSide(pre).id][CallName] = CallValue
    /\ heap[OtherSide(pre).id] = pre[OtherSide(pre).id]

(* C18: the hook terminates and nests at most one level.  Every attribute  *)
(* assignment, made directly or by an update, runs to its end, whatever    *)
(* the graph of instances, cycles included; the hook is re-entered for the *)
(* back-link and no deeper.                                                *)
C18_HookTerminates ==
    (call.op \in {"setattr", "update"} /\ res.exc # "ValueError") =>
        /\ res.exc = "none"
        /\ res.depth <= 2

\* the last call was self.update(f=v) with f an attribute of self
UpdatedOne ==
    /\ call.op = "update"
    /\ Len(call.kwargs) = 1
    /\ CallName \in DOMAIN pre[CallSelf]

(* C19: update goes through the assignment hook.  After x.update(f=v) the  *)
(* heap is the heap that the assignment x.f = v makes of the same state,   *)
(* and the call returns exactly when the assignment does: a list or dict   *)
(* is held as an owned collection of x under f, and an instance assigned   *)
(* to a relationship field has x in its inverse field.                     *)
C19_UpdateIsAssignment ==
    UpdatedOne =>
        LET direct == SetAttr(pre, CallSelf, CallName, CallValue, 1)
        IN  /\ heap = direct.heap
            /\ res.exc = direct.exc
            /\ CallValue.k \in {"list", "dict"} =>
                  /\ heap[CallSelf][CallName].k = CallValue.k
                  /\ heap[CallSelf][CallName].items = CallValue.items
                  /\ heap[CallSelf][CallName].owner = CallSelf
                  /\ heap[CallSelf][CallName].keypath = CallName
            /\ ( /\ CallValue.k = "obj"
                 /\ FieldStorage(ClassOf(CallSelf), CallName) \in {"LOCAL_KEY", "FOREIGN_KEY"}
                 /\ other_field(CallSelf, CallValue.id, CallName) # NoField )
               => res.exc = "none" /\ LinkedBack

====
